---- MODULE Spec2Model ----
(***************************************************************************)
(* Model of the AI-Shopping-Assistant front end.                           *)
(*                                                                         *)
(*  - the chat widget, first component of src/src/components/ChatBot.tsx:  *)
(*    session id, message history, pending placeholder, reload recovery,   *)
(*    clearChat, the localStorage it persists to and the requests it has   *)
(*    in flight;                                                           *)
(*  - the remote search page, src/unnamed/part_000 (SearchPage with the    *)
(*    POST /search request, the dedup/sort/slice step and the local        *)
(*    fallback scorer).                                                    *)
(*                                                                         *)
(* Strings are sequences of one-character strings, so that trim,           *)
(* toLowerCase, includes and split are computed, not assumed.              *)
(***************************************************************************)
EXTENDS Integers, Sequences, FiniteSets, TLC

(***************************************************************************)
(* Bounds of the model.                                                    *)
(***************************************************************************)
\* accepted handleSendMessage calls over a whole behaviour
MaxSends == 2
\* session ids ever generated (first visit + clearChat)
MaxSessions == 2
\* DELETE /session requests in flight at once
MaxDeletes == 1
\* length of the product list of a /search answer
MaxRemote == 2
\* searchProducts calls over a whole behaviour
MaxSearches == 2
\* records in the local catalog
MaxCatalog == 2

(***************************************************************************)
(* JavaScript values.                                                      *)
(***************************************************************************)
\* the value of a missing text-like field (text, response): undefined
UndefinedText == <<"<undefined>">>
\* the value of a missing list field (products, ui_products): undefined
UndefinedList == <<"<undefined>">>
\* absent localStorage entry: getItem returns null
Null == << [null |-> TRUE] >>

(***************************************************************************)
(* Strings: String.prototype.trim / toLowerCase / includes.                *)
(***************************************************************************)
IsSpace(c) == c = " "

LowerChar(c) ==
    CASE c = "A" -> "a"
      [] c = "B" -> "b"
      [] c = "G" -> "g"
      [] c = "S" -> "s"
      [] OTHER -> c

ToLowerCase(s) == [i \in 1..Len(s) |-> LowerChar(s[i])]

RECURSIVE TrimStart(_)
TrimStart(s) ==
    IF s = <<>> THEN <<>>
    ELSE IF IsSpace(Head(s)) THEN TrimStart(Tail(s)) ELSE s

RECURSIVE TrimEnd(_)
TrimEnd(s) ==
    IF s = <<>> THEN <<>>
    ELSE IF IsSpace(s[Len(s)]) THEN TrimEnd(SubSeq(s, 1, Len(s) - 1)) ELSE s

Trim(s) == TrimEnd(TrimStart(s))

\* s.includes(sub): sub occurs in s as a contiguous run (the empty string always)
Includes(s, sub) ==
    \E k \in 0..(Len(s) - Len(sub)) : SubSeq(s, k + 1, k + Len(sub)) = sub

(***************************************************************************)
(* State.                                                                  *)
(***************************************************************************)
VARIABLES
    \* --- localStorage ---
    storedSessionId,   \* localStorage['chatbot_session_id'], NoSession when absent
    storedMessages,    \* session id -> localStorage['chatMessages_<id>'] (JSON), Null when absent
    \* --- ChatBot component state (one page lifetime) ---
    sessionId,         \* useState(getOrCreateSessionId())
    messages,          \* useState<Message[]>
    inputValue,        \* useState('')
    isTyping,          \* useState(false)
    isConnected,       \* useState(false)
    \* --- React scheduling ---
    dirty,             \* messages changed and the save-messages effect has not run yet
    reloading,         \* window.location.reload() was called, the page is not unloaded yet
    unmounted,         \* an effect threw: React removed the component tree
    \* --- asynchronous work of the page ---
    chatReqs,          \* POST /chat requests in flight (their continuations)
    healthReq,         \* GET /health in flight
    deleteReqs,        \* number of DELETE /session/<sessionId> in flight
    mocks,             \* handleMockResponse calls waiting for import + setTimeout(1000)
    \* --- environment ---
    clock,             \* Date.now(): the next message id
    nextSid,           \* the next `session_${Date.now()}_${random}` value
    sends,             \* number of accepted handleSendMessage calls so far
    cleared,           \* history: session ids clearChat has run to its end for
    \* --- SearchPage (remote variant) ---
    catalog,           \* '@/data/products.json', read-only
    query,             \* searchParams.get('q') || ''
    products,          \* useState([]): the displayed list
    loading,           \* useState(false)
    hasSearched,       \* useState(false)
    searchReqs,        \* searchProducts calls awaiting their POST /search
    searches,          \* number of searchProducts calls so far
    shown,             \* history: which path set products last, from how many records
    \* --- SearchPage (local variant, src/src/pages/SearchPage.tsx) ---
    productsData,      \* '@/data/products.json' imported statically, read-only
    timers             \* search queries of the setTimeout(..., 300) callbacks not yet run

chatVars == <<storedSessionId, storedMessages, sessionId, messages, inputValue,
              isTyping, isConnected, dirty, reloading, unmounted, chatReqs, healthReq,
              deleteReqs, mocks, clock, nextSid, sends, cleared>>

searchVars == <<catalog, query, products, loading, hasSearched, searchReqs, searches,
                shown, productsData, timers>>

vars == <<chatVars, searchVars>>

\* localStorage.getItem('chatbot_session_id') === null
NoSession == 0

(***************************************************************************)
(* Messages (interface Message; the timestamp is never read and is left    *)
(* out; pending / needsClarification are only tested for truthiness, so    *)
(* undefined and false are both FALSE).                                    *)
(***************************************************************************)
Message(id, type, text, pending, prods, needsClarification, questions) ==
    [id |-> id, type |-> type, text |-> text, pending |-> pending,
     products |-> prods, needsClarification |-> needsClarification,
     clarificationQuestions |-> questions]

GreetingText == <<"Hi! I'm your AI shopping assistant. I can help you find products using advanced semantic search. What are you looking for today?">>
ThinkingText == <<"Thinking...">>
ApologyText == <<"Sorry, we are facing some issues. Please try again after some time. Thanks!">>
ClearedText == <<"Chat cleared! How can I help you today?">>
TroubleText == <<"I'm having trouble right now, but I'm here to help you find great products. What are you looking for?">>
ClarifyDefaultText == <<"I need some clarification:">>

\* the initial value of messages when nothing is saved
GreetingMessages ==
    << Message(1, "bot", GreetingText, FALSE, UndefinedList, FALSE, UndefinedList) >>

\* the list clearChat resets the history to
ClearedMessages ==
    << Message(1, "bot", ClearedText, FALSE, UndefinedList, FALSE, UndefinedList) >>

(***************************************************************************)
(* JSON.stringify / JSON.parse of the message list: a key whose value is   *)
(* undefined is dropped by stringify and reads back as undefined.          *)
(***************************************************************************)
DefinedKeys(m) ==
    {"id", "type", "pending", "needsClarification"}
        \cup (IF m.text # UndefinedText THEN {"text"} ELSE {})
        \cup (IF m.products # UndefinedList THEN {"products"} ELSE {})
        \cup (IF m.clarificationQuestions # UndefinedList
              THEN {"clarificationQuestions"} ELSE {})

\* a serialisation that loses the products of the messages
JSONStringifyDroppingProducts(msgs) ==
    [i \in 1..Len(msgs) |-> [k \in DefinedKeys(msgs[i]) \ {"products"} |-> msgs[i][k]]]

JSONStringify(msgs) ==
    [i \in 1..Len(msgs) |-> [k \in DefinedKeys(msgs[i]) |-> msgs[i][k]]]

JSONParse(saved) ==
    [i \in 1..Len(saved) |->
        Message(saved[i].id, saved[i].type,
                IF "text" \in DOMAIN saved[i] THEN saved[i].text ELSE UndefinedText,
                saved[i].pending,
                IF "products" \in DOMAIN saved[i] THEN saved[i].products ELSE UndefinedList,
                saved[i].needsClarification,
                IF "clarificationQuestions" \in DOMAIN saved[i]
                THEN saved[i].clarificationQuestions ELSE UndefinedList)]

(***************************************************************************)
(* Session id.                                                             *)
(***************************************************************************)
\* a new id on every page load, whatever is stored
GenerateSessionId(stored, fresh) ==
    [id |-> fresh, stored |-> fresh, generated |-> TRUE]

\* getOrCreateSessionId: [id: the id returned, stored: chatbot_session_id afterwards,
\* generated: whether a new id was made]; fresh is the id it would generate
GetOrCreateSessionId(stored, fresh) ==
    IF stored # NoSession
    THEN [id |-> stored, stored |-> stored, generated |-> FALSE]
    ELSE [id |-> fresh, stored |-> fresh, generated |-> TRUE]

\* the lazy initial state of messages: saved ? JSON.parse(saved) : [greeting]
InitialMessages(saved) ==
    IF saved # Null THEN JSONParse(saved) ELSE GreetingMessages

(***************************************************************************)
(* Inputs of the environment.                                              *)
(***************************************************************************)
\* what the user may have in the input box: nothing, " Bag " and "hi"
InputTexts ==
    { <<>>, <<" ", "B", "a", "g", " ">>, <<"h", "i">> }

\* the backend's answer to a message: tagged with the message it answers
Answer(message) == <<"re:">> \o message

\* bodies of a 2xx answer of POST /chat to a request for `message`: results with
\* products, or a clarification with no response text
ChatData(message) ==
    { [response |-> Answer(message), ui_products |-> <<"B01">>,
       needs_clarification |-> FALSE, clarification_questions |-> UndefinedList],
      [response |-> UndefinedText, ui_products |-> UndefinedList,
       needs_clarification |-> TRUE, clarification_questions |-> <<"Which size?">>] }

\* JSON body of a non-2xx answer ({"detail": ...}): none of the fields the client reads
ErrorBody ==
    [response |-> UndefinedText, ui_products |-> UndefinedList,
     needs_clarification |-> FALSE, clarification_questions |-> UndefinedList]

\* what a failed request throws: fetch's TypeError, or the Error of the response.ok check
ErrorDetails == { <<"Failed to fetch">>, <<"HTTP error! status: 500">> }

\* product lists the local catalog may yield for a mock answer (slice(0, 3) of a filter)
MockProducts == { <<>>, <<"M01">> }

(***************************************************************************)
(* Pure parts of the handlers.                                             *)
(***************************************************************************)
\* addMessage: [...prev, newMessage]
AddMessage(msgs, id, type, text, prods) ==
    Append(msgs, Message(id, type, text, FALSE, prods, FALSE, UndefinedList))

\* the placeholder handleSendMessage appends
AddPending(msgs, id) ==
    Append(msgs, Message(id, "bot", ThinkingText, TRUE, UndefinedList, FALSE, UndefinedList))

\* a || b for list values
OrList(a, b) == IF a = UndefinedList THEN b ELSE a

\* success, clarification branch: prev.map(msg => msg.pending ? {...} : msg)
ResolveClarification(msgs, data) ==
    [i \in 1..Len(msgs) |->
        IF msgs[i].pending
        THEN [msgs[i] EXCEPT
                !.text = IF data.response = UndefinedText \/ data.response = <<>>
                         THEN ClarifyDefaultText ELSE data.response,
                !.needsClarification = TRUE,
                !.clarificationQuestions = data.clarification_questions,
                !.pending = FALSE]
        ELSE msgs[i]]

\* a results branch that rewrites every assistant message, pending or not
ResolveResultsAllBots(msgs, data) ==
    [i \in 1..Len(msgs) |->
        IF msgs[i].type = "bot"
        THEN [msgs[i] EXCEPT
                !.text = data.response,
                !.products = OrList(data.ui_products, <<>>),
                !.pending = FALSE]
        ELSE msgs[i]]

\* success, results branch
ResolveResults(msgs, data) ==
    [i \in 1..Len(msgs) |->
        IF msgs[i].pending
        THEN [msgs[i] EXCEPT
                !.text = data.response,
                !.products = OrList(data.ui_products, <<>>),
                !.pending = FALSE]
        ELSE msgs[i]]

\* data.needs_clarification && data.clarification_questions?.length > 0
WantsClarification(data) ==
    /\ data.needs_clarification
    /\ data.clarification_questions # UndefinedList
    /\ Len(data.clarification_questions) > 0

\* the two success branches of handleSendMessage
ResolveSuccess(msgs, data) ==
    IF WantsClarification(data)
    THEN ResolveClarification(msgs, data)
    ELSE ResolveResults(msgs, data)

\* a catch branch that shows the error's message
ResolveFailureShowingError(msgs, error) ==
    [i \in 1..Len(msgs) |->
        IF msgs[i].pending
        THEN [msgs[i] EXCEPT !.text = error, !.pending = FALSE]
        ELSE msgs[i]]

\* catch branch of handleSendMessage: the error is not used
ResolveFailure(msgs, error) ==
    [i \in 1..Len(msgs) |->
        IF msgs[i].pending
        THEN [msgs[i] EXCEPT !.text = ApologyText, !.pending = FALSE]
        ELSE msgs[i]]

\* .then(data => ...) of the pending-retry effect
ResolveRetry(msgs, data) ==
    [i \in 1..Len(msgs) |->
        IF msgs[i].pending
        THEN [msgs[i] EXCEPT
                !.text = data.response,
                !.products = OrList(data.ui_products, <<>>),
                !.pending = FALSE]
        ELSE msgs[i]]

\* indexes of messages.find(m => m.pending && m.type === 'bot') candidates
PendingBots(msgs) == {i \in 1..Len(msgs) : msgs[i].pending /\ msgs[i].type = "bot"}
UserIndexes(msgs) == {i \in 1..Len(msgs) : msgs[i].type = "user"}

Min(S) == CHOOSE x \in S : \A y \in S : x <= y
Max(S) == CHOOSE x \in S : \A y \in S : x >= y

\* the text the pending-retry effect sends: [...messages].reverse().find(user).text
RetryText(msgs) == msgs[Max(UserIndexes(msgs))].text

\* the requests the pending-retry effect issues at mount (none or one)
RetryRequests(msgs, sid) ==
    IF PendingBots(msgs) # {} /\ UserIndexes(msgs) # {}
    THEN {[origin |-> "retry", message |-> RetryText(msgs), session_id |-> sid,
           turn |-> msgs[Min(PendingBots(msgs))].id]}
    ELSE {}

\* the request handleSendMessage issues; turn is pendingBotMsgId of that call
SendRequest(userMessage, sid, pendingBotMsgId) ==
    [origin |-> "send", message |-> userMessage, session_id |-> sid,
     turn |-> pendingBotMsgId]

\* handleMockResponse, the keyword branches: the text of the mock answer
MockResponseText(userQuery) ==
    LET lowered == ToLowerCase(userQuery) IN
    IF Includes(lowered, <<"n", "i", "k", "e">>) \/ Includes(lowered, <<"s", "h", "o", "e">>)
    THEN <<"I found some excellent Nike shoes for you:">>
    ELSE IF Includes(lowered, <<"s", "h", "i", "r", "t">>) \/ Includes(lowered, <<"c", "l", "o", "t", "h", "i", "n", "g">>)
    THEN <<"Here are some popular clothing items:">>
    ELSE IF Includes(lowered, <<"b", "a", "g">>) \/ Includes(lowered, <<"b", "a", "c", "k", "p", "a", "c", "k">>)
    THEN <<"Here are some great bags I found for you:">>
    ELSE IF Includes(lowered, <<"j", "e", "w", "e", "l", "r", "y">>) \/ Includes(lowered, <<"w", "a", "t", "c", "h">>)
    THEN <<"Here are some elegant jewelry pieces:">>
    ELSE IF Includes(lowered, <<"h", "o", "o", "d", "i", "e">>) \/ Includes(lowered, <<"s", "w", "e", "a", "t", "s", "h", "i", "r", "t">>)
    THEN <<"I found some comfortable hoodies for you:">>
    ELSE <<"Let me show you some popular products that might interest you:">>

(***************************************************************************)
(* Initial state: the first visit, after the component has mounted.        *)
(***************************************************************************)
\* the state a page load leaves, given localStorage and the environment
Mounted(stored, msgStore, fresh) ==
    LET sid == GetOrCreateSessionId(stored, fresh)
        loaded == InitialMessages(msgStore[sid.id])
        retry == RetryRequests(loaded, sid.id)
    IN  [storedSessionId |-> sid.stored,
         sessionId |-> sid.id,
         messages |-> loaded,
         \* save-messages effect of the first render
         storedMessages |-> [msgStore EXCEPT ![sid.id] = JSONStringify(loaded)],
         \* pending-retry effect: setIsTyping(true) and the request
         isTyping |-> retry # {},
         chatReqs |-> retry,
         generated |-> sid.generated]

ChatInit ==
    LET m == Mounted(NoSession, [i \in 1..MaxSessions |-> Null], 1) IN
    /\ storedSessionId = m.storedSessionId
    /\ storedMessages = m.storedMessages
    /\ sessionId = m.sessionId
    /\ messages = m.messages
    /\ inputValue = <<>>
    /\ isTyping = m.isTyping
    /\ isConnected = FALSE
    /\ dirty = FALSE
    /\ reloading = FALSE
    /\ unmounted = FALSE
    /\ chatReqs = m.chatReqs
    /\ healthReq = TRUE
    /\ deleteReqs = 0
    /\ mocks = {}
    /\ clock = 2
    /\ nextSid = 2
    /\ sends = 0
    /\ cleared = {}

Shown(path, received) == [path |-> path, received |-> received]

\* the search page before any query, over a given catalog
SearchPageInit(cat) ==
    /\ catalog = cat
    /\ query = <<>>
    /\ products = <<>>
    /\ loading = FALSE
    /\ hasSearched = FALSE
    /\ searchReqs = {}
    /\ searches = 0
    /\ shown = Shown("none", 0)
    /\ productsData = <<>>
    /\ timers = <<>>

Init == ChatInit /\ SearchPageInit(<<>>)

(***************************************************************************)
(* Actions of the chat widget.                                             *)
(***************************************************************************)
\* the page runs handlers: no reload is under way, React has flushed and the
\* component is on the page
Idle == ~reloading /\ ~dirty /\ ~unmounted

\* page load: a reload by the user, a crash and reopen, or the reload clearChat asked for.
\* Requests and timers of the old page are dropped with it.
Mount ==
    /\ LET m == Mounted(storedSessionId, storedMessages, nextSid) IN
        /\ m.generated => nextSid <= MaxSessions
        /\ storedSessionId' = m.storedSessionId
        /\ storedMessages' = m.storedMessages
        /\ sessionId' = m.sessionId
        /\ messages' = m.messages
        /\ isTyping' = m.isTyping
        /\ chatReqs' = m.chatReqs
        /\ nextSid' = IF m.generated THEN nextSid + 1 ELSE nextSid
    /\ inputValue' = <<>>
    /\ isConnected' = FALSE
    /\ dirty' = FALSE
    /\ reloading' = FALSE
    /\ unmounted' = FALSE
    /\ healthReq' = TRUE
    /\ deleteReqs' = 0
    /\ mocks' = {}
    /\ UNCHANGED <<clock, sends, cleared>>
    /\ UNCHANGED searchVars

\* save-messages effect after a render that changed messages
Commit ==
    /\ dirty
    /\ ~unmounted
    /\ storedMessages' = [storedMessages EXCEPT ![sessionId] = JSONStringify(messages)]
    /\ dirty' = FALSE
    /\ UNCHANGED <<storedSessionId, sessionId, messages, inputValue, isTyping,
                   isConnected, reloading, chatReqs, healthReq, deleteReqs, mocks,
                   clock, nextSid, sends, cleared>>
    /\ UNCHANGED <<unmounted, searchVars>>

\* onChange of the input box
TypeInput(t) ==
    /\ Idle
    /\ inputValue # t
    /\ inputValue' = t
    /\ UNCHANGED <<storedSessionId, storedMessages, sessionId, messages, isTyping,
                   isConnected, dirty, reloading, chatReqs, healthReq, deleteReqs,
                   mocks, clock, nextSid, sends, cleared>>
    /\ UNCHANGED <<unmounted, searchVars>>

\* checkBackendConnection, after GET /health: ok -> connected; other status -> nothing;
\* rejected -> not connected
HealthResponse(outcome) ==
    /\ Idle
    /\ healthReq
    /\ healthReq' = FALSE
    /\ isConnected' = CASE outcome = "ok" -> TRUE
                        [] outcome = "status" -> isConnected
                        [] outcome = "rejected" -> FALSE
    /\ UNCHANGED <<storedSessionId, storedMessages, sessionId, messages, inputValue,
                   isTyping, dirty, reloading, chatReqs, deleteReqs, mocks, clock,
                   nextSid, sends, cleared>>
    /\ UNCHANGED <<unmounted, searchVars>>

\* handleSendMessage up to its first await (or its return on the offline path).
\* viaButton: the Send button, disabled={isTyping}; otherwise Enter in the input.
HandleSendMessage(viaButton) ==
    /\ Idle
    /\ viaButton => ~isTyping
    /\ IF Trim(inputValue) = <<>>
       THEN \* if (!inputValue.trim()) return
            UNCHANGED chatVars
       ELSE LET userMessage == Trim(inputValue)
                pendingBotMsgId == clock + 1
            IN  /\ sends < MaxSends
                /\ sends' = sends + 1
                /\ messages' = AddPending(
                       AddMessage(messages, clock, "user", userMessage, UndefinedList),
                       pendingBotMsgId)
                /\ clock' = clock + 2
                /\ inputValue' = <<>>
                /\ dirty' = TRUE
                /\ IF ~isConnected
                   THEN \* handleMockResponse(userMessage); return; finally setIsTyping(false)
                        /\ mocks' = mocks \cup {[userQuery |-> userMessage,
                                                 turn |-> pendingBotMsgId]}
                        /\ isTyping' = FALSE
                        /\ UNCHANGED chatReqs
                   ELSE \* await fetch(`${BACKEND_URL}/chat`, ...)
                        /\ chatReqs' = chatReqs \cup
                               {SendRequest(userMessage, sessionId, pendingBotMsgId)}
                        /\ isTyping' = TRUE
                        /\ UNCHANGED mocks
                /\ UNCHANGED <<storedSessionId, storedMessages, sessionId, isConnected,
                               reloading, healthReq, deleteReqs, nextSid, cleared>>
    /\ UNCHANGED <<unmounted, searchVars>>

\* handleSendMessage after a 2xx answer with body data
ChatResponse(r, data) ==
    /\ Idle
    /\ r \in chatReqs /\ r.origin = "send"
    /\ chatReqs' = chatReqs \ {r}
    /\ messages' = ResolveSuccess(messages, data)
    /\ isTyping' = FALSE
    /\ dirty' = TRUE
    /\ UNCHANGED <<storedSessionId, storedMessages, sessionId, inputValue, isConnected,
                   reloading, healthReq, deleteReqs, mocks, clock, nextSid, sends,
                   cleared>>
    /\ UNCHANGED <<unmounted, searchVars>>

\* handleSendMessage when fetch rejects or the status is not 2xx: catch, finally
ChatFailure(r, error) ==
    /\ Idle
    /\ r \in chatReqs /\ r.origin = "send"
    /\ chatReqs' = chatReqs \ {r}
    /\ messages' = ResolveFailure(messages, error)
    /\ isTyping' = FALSE
    /\ dirty' = TRUE
    /\ UNCHANGED <<storedSessionId, storedMessages, sessionId, inputValue, isConnected,
                   reloading, healthReq, deleteReqs, mocks, clock, nextSid, sends,
                   cleared>>
    /\ UNCHANGED <<unmounted, searchVars>>

\* pending-retry effect, .then chain: any status whose body parses as JSON
RetryResponse(r, data) ==
    /\ Idle
    /\ r \in chatReqs /\ r.origin = "retry"
    /\ chatReqs' = chatReqs \ {r}
    /\ messages' = ResolveRetry(messages, data)
    /\ isTyping' = FALSE
    /\ dirty' = TRUE
    /\ UNCHANGED <<storedSessionId, storedMessages, sessionId, inputValue, isConnected,
                   reloading, healthReq, deleteReqs, mocks, clock, nextSid, sends,
                   cleared>>
    /\ UNCHANGED <<unmounted, searchVars>>

\* pending-retry effect, .catch: fetch rejected or the body is no JSON
RetryFailure(r) ==
    /\ Idle
    /\ r \in chatReqs /\ r.origin = "retry"
    /\ chatReqs' = chatReqs \ {r}
    /\ isTyping' = FALSE
    /\ UNCHANGED <<storedSessionId, storedMessages, sessionId, messages, inputValue,
                   isConnected, dirty, reloading, healthReq, deleteReqs, mocks, clock,
                   nextSid, sends, cleared>>
    /\ UNCHANGED <<unmounted, searchVars>>

\* handleMockResponse: the import resolved and the setTimeout(1000) callback runs
MockTimer(m, prods) ==
    /\ Idle
    /\ m \in mocks
    /\ mocks' = mocks \ {m}
    /\ messages' = AddMessage(messages, clock, "bot", MockResponseText(m.userQuery), prods)
    /\ clock' = clock + 1
    /\ isTyping' = FALSE
    /\ dirty' = TRUE
    /\ UNCHANGED <<storedSessionId, storedMessages, sessionId, inputValue, isConnected,
                   reloading, chatReqs, healthReq, deleteReqs, nextSid, sends, cleared>>
    /\ UNCHANGED <<unmounted, searchVars>>

\* handleMockResponse: the import of the catalog rejected (catch)
MockImportFailed(m) ==
    /\ Idle
    /\ m \in mocks
    /\ mocks' = mocks \ {m}
    /\ messages' = AddMessage(messages, clock, "bot", TroubleText, UndefinedList)
    /\ clock' = clock + 1
    /\ isTyping' = FALSE
    /\ dirty' = TRUE
    /\ UNCHANGED <<storedSessionId, storedMessages, sessionId, inputValue, isConnected,
                   reloading, chatReqs, healthReq, deleteReqs, nextSid, sends, cleared>>
    /\ UNCHANGED <<unmounted, searchVars>>

\* clearChat, the part after the DELETE (or with no DELETE when offline): remove both
\* keys, store a new id, reset the messages, window.location.reload()
ClearLocally ==
    /\ storedMessages' = [storedMessages EXCEPT ![sessionId] = Null]
    /\ storedSessionId' = nextSid
    /\ nextSid' = nextSid + 1
    /\ messages' = ClearedMessages
    /\ dirty' = TRUE
    /\ reloading' = TRUE
    /\ cleared' = cleared \cup {sessionId}

\* clearChat up to its await: connected -> DELETE in flight; offline -> clear at once
ClearChat ==
    /\ Idle
    /\ nextSid <= MaxSessions
    /\ IF isConnected
       THEN /\ deleteReqs < MaxDeletes
            /\ deleteReqs' = deleteReqs + 1
            /\ UNCHANGED <<storedSessionId, storedMessages, sessionId, messages,
                           inputValue, isTyping, isConnected, dirty, reloading,
                           chatReqs, healthReq, mocks, clock, nextSid, sends, cleared>>
       ELSE /\ ClearLocally
            /\ UNCHANGED <<sessionId, inputValue, isTyping, isConnected, chatReqs,
                           healthReq, deleteReqs, mocks, clock, sends>>
    /\ UNCHANGED <<unmounted, searchVars>>

\* clearChat after the DELETE resolved (whatever its status)
ClearChatDeleted ==
    /\ Idle
    /\ deleteReqs > 0
    /\ nextSid <= MaxSessions
    /\ deleteReqs' = deleteReqs - 1
    /\ ClearLocally
    /\ UNCHANGED <<sessionId, inputValue, isTyping, isConnected, chatReqs, healthReq,
                   mocks, clock, sends>>
    /\ UNCHANGED <<unmounted, searchVars>>

\* clearChat when the DELETE rejected: catch, only the messages are reset
ClearChatDeleteFailed ==
    /\ Idle
    /\ deleteReqs > 0
    /\ deleteReqs' = deleteReqs - 1
    /\ messages' = ClearedMessages
    /\ dirty' = TRUE
    /\ cleared' = cleared \cup {sessionId}
    /\ UNCHANGED <<storedSessionId, storedMessages, sessionId, inputValue, isTyping,
                   isConnected, reloading, chatReqs, healthReq, mocks, clock, nextSid,
                   sends>>
    /\ UNCHANGED <<unmounted, searchVars>>

Next ==
    \/ Mount
    \/ Commit
    \/ \E t \in InputTexts : TypeInput(t)
    \/ \E outcome \in {"ok", "status", "rejected"} : HealthResponse(outcome)
    \/ \E viaButton \in BOOLEAN : HandleSendMessage(viaButton)
    \/ \E r \in chatReqs : \E data \in ChatData(r.message) : ChatResponse(r, data)
    \/ \E r \in chatReqs : \E error \in ErrorDetails : ChatFailure(r, error)
    \/ \E r \in chatReqs : \E data \in ChatData(r.message) \cup {ErrorBody} : RetryResponse(r, data)
    \/ \E r \in chatReqs : RetryFailure(r)
    \/ \E m \in mocks : \E prods \in MockProducts : MockTimer(m, prods)
    \/ \E m \in mocks : MockImportFailed(m)
    \/ ClearChat
    \/ ClearChatDeleted
    \/ ClearChatDeleteFailed

Spec == Init /\ [][Next]_vars

(***************************************************************************)
(* Steps that answer a turn, and the requests in flight for a turn.        *)
(***************************************************************************)
PendingCount(msgs) == Cardinality({i \in 1..Len(msgs) : msgs[i].pending})

SendAnswered ==
    \/ \E r \in chatReqs : \E data \in ChatData(r.message) : ChatResponse(r, data)
    \/ \E r \in chatReqs : \E error \in ErrorDetails : ChatFailure(r, error)

MockAnswered ==
    \/ \E m \in mocks : \E prods \in MockProducts : MockTimer(m, prods)
    \/ \E m \in mocks : MockImportFailed(m)

\* position of the message with this id, 0 when there is none
IndexOfId(msgs, id) ==
    IF \E i \in 1..Len(msgs) : msgs[i].id = id
    THEN Min({i \in 1..Len(msgs) : msgs[i].id = id})
    ELSE 0

\* the stored list of a session holds the user turn `text` followed by a pending
\* placeholder with id `turn`
TurnRecorded(saved, text, turn) ==
    /\ saved # Null
    /\ \E i \in 1..(Len(saved) - 1) :
        /\ saved[i].type = "user" /\ saved[i].text = text
        /\ saved[i + 1].id = turn /\ saved[i + 1].pending

(***************************************************************************)
(* C1: single-flight input. In every reachable state the history holds at  *)
(* most one message with pending = true (a send made while a placeholder   *)
(* is pending is not accepted).                                            *)
(***************************************************************************)
C1_SingleFlight == PendingCount(messages) <= 1

(***************************************************************************)
(* C2: persist before network. At the moment a POST /chat of               *)
(* handleSendMessage is issued, chatMessages_<sessionId> already holds the *)
(* user message of that turn and its pending placeholder.                  *)
(***************************************************************************)
C2_PersistBeforeNetwork ==
    [][\A r \in chatReqs' \ chatReqs :
          r.origin = "send" =>
              TurnRecorded(storedMessages'[r.session_id], r.message, r.turn)]_vars

(***************************************************************************)
(* C3: in-place resolution. Every step that answers a turn (remote         *)
(* success, remote failure, the offline mock answer) writes into the       *)
(* placeholder and appends nothing: the history keeps its length.          *)
(***************************************************************************)
C3_InPlaceResolution ==
    [][(SendAnswered \/ MockAnswered) => Len(messages') = Len(messages)]_vars

(***************************************************************************)
(* C4: reload recovery. A page load that finds one pending placeholder     *)
(* preceded by a user message issues exactly one POST /chat, with that     *)
(* user message's text and the session id of before the reload; retry      *)
(* requests are issued by a page load only; and when the retry's response  *)
(* arrives the placeholder it was issued for (same id, same position) is   *)
(* pending = false with the response's text and products.                  *)
(***************************************************************************)
\* the user message nearest before position i
PrecedingUser(msgs, i) == Max({j \in 1..(i - 1) : msgs[j].type = "user"})

C4_RetryIssuedOnce ==
    /\ \A i \in 1..Len(messages') :
        (/\ Mount
         /\ PendingCount(messages') = 1
         /\ messages'[i].pending
         /\ \E j \in 1..(i - 1) : messages'[j].type = "user")
        => chatReqs' = {[origin |-> "retry",
                         message |-> messages'[PrecedingUser(messages', i)].text,
                         session_id |-> storedSessionId,
                         turn |-> messages'[i].id]}
    /\ (\E r \in chatReqs' \ chatReqs : r.origin = "retry") => Mount

C4_RetryResolvesPlaceholder ==
    \A r \in chatReqs : \A data \in ChatData(r.message) \cup {ErrorBody} :
        RetryResponse(r, data) =>
            LET i == IndexOfId(messages, r.turn) IN
            i # 0 =>
            /\ Len(messages') = Len(messages)
            /\ messages'[i].id = r.turn
            /\ ~messages'[i].pending
            /\ messages'[i].text = data.response
            /\ messages'[i].products = OrList(data.ui_products, <<>>)

C4_ReloadRecovery == [][C4_RetryIssuedOnce /\ C4_RetryResolvesPlaceholder]_vars

(***************************************************************************)
(* C5: every user turn terminates. Once every request and timer of the     *)
(* page has completed and React has flushed, no placeholder is left        *)
(* pending.                                                                *)
(***************************************************************************)
Quiescent == chatReqs = {} /\ mocks = {} /\ ~dirty /\ ~reloading

C5_TurnsTerminate == Quiescent => PendingCount(messages) = 0

(***************************************************************************)
(* C6: session id stability. The stored chatbot_session_id changes only    *)
(* when none is stored or when clearChat clears locally, and a page load   *)
(* (getOrCreateSessionId) returns the stored id when there is one.         *)
(***************************************************************************)
ClearsLocally == ClearChat \/ ClearChatDeleted

C6_SessionIdStable ==
    [][/\ (storedSessionId # NoSession /\ ~ClearsLocally)
            => storedSessionId' = storedSessionId
       /\ (storedSessionId # NoSession /\ Mount)
            => sessionId' = storedSessionId /\ storedSessionId' = storedSessionId
       /\ sessionId' # sessionId => Mount]_vars

\* a page was reloaded with its history (a retry is in flight) under the first id
C6_Witness ==
    \E r \in chatReqs :
        r.origin = "retry" /\ r.session_id = 1 /\ sessionId = 1 /\ storedSessionId = 1

(***************************************************************************)
(* C7: fresh id after clear. Once clearChat has run for session id S, on   *)
(* every path through it, the stored id (what the next                     *)
(* getOrCreateSessionId returns) is not S.                                 *)
(***************************************************************************)
C7_FreshIdAfterClear == storedSessionId \notin cleared

(***************************************************************************)
(* C8: clear is complete locally. Once clearChat and the effects it        *)
(* triggers have finished, nothing is stored under                         *)
(* chatMessages_<clearedId> and the stored id is not the cleared id.       *)
(***************************************************************************)
C8_ClearCompleteLocally ==
    (~dirty /\ ~reloading) =>
        \A s \in cleared : storedMessages[s] = Null /\ storedSessionId # s

(***************************************************************************)
(* C9: remote failure of a request of handleSendMessage. Every message     *)
(* that was pending becomes pending = false with the fixed apology text    *)
(* and no products, every other message is unchanged, nothing is appended  *)
(* and no message carries the error's text.                                *)
(***************************************************************************)
C9_FailureStep ==
    (\E r \in chatReqs : \E error \in ErrorDetails : ChatFailure(r, error)) =>
        /\ Len(messages') = Len(messages)
        /\ \A i \in 1..Len(messages) :
            IF messages[i].pending
            THEN /\ messages'[i] = [messages[i] EXCEPT !.text = ApologyText,
                                                       !.pending = FALSE]
                 /\ messages'[i].products = UndefinedList
            ELSE messages'[i] = messages[i]
        /\ \A i \in 1..Len(messages') : messages'[i].text \notin ErrorDetails

C9_RemoteFailure == [][C9_FailureStep]_vars

\* a placeholder was resolved to the apology
C9_Witness ==
    \E i \in 1..Len(messages) :
        /\ messages[i].type = "bot" /\ messages[i].id # 1
        /\ ~messages[i].pending
        /\ messages[i].text = ApologyText
        /\ messages[i].products = UndefinedList

(***************************************************************************)
(* The remote search page (src/unnamed/part_000).                          *)
(***************************************************************************)
\* similarity_score is undefined
NoScore == -1
\* .slice(0, 20)
ResultLimit == 20

\* a product record; stars in tenths (45 is 4.5), 0 when missing; price: whether present
Product(asin, title, brand, category, description, thumbnailImage, image, price, stars, score) ==
    [asin |-> asin, title |-> title, brand |-> brand, category |-> category,
     description |-> description, thumbnailImage |-> thumbnailImage, image |-> image,
     price |-> price, stars |-> stars, similarity_score |-> score]

\* a || b || '' for strings: undefined and '' are falsy
OrText(a, b) ==
    IF a # UndefinedText /\ a # <<>> THEN a
    ELSE IF b # UndefinedText /\ b # <<>> THEN b
    ELSE <<>>

\* products of a /search answer: asin A with every mix of score and title, asin B
\* with and without a score, and two records that carry images
RemoteProducts ==
    { Product("A", t, UndefinedText, UndefinedText, UndefinedText, UndefinedText,
              UndefinedText, FALSE, 0, sc) :
        t \in {UndefinedText, <<"a">>, <<"a", "b">>},
        sc \in {NoScore, 1, 2} }
    \cup
    { Product("B", <<"a">>, UndefinedText, UndefinedText, UndefinedText, UndefinedText,
              UndefinedText, FALSE, 0, sc) :
        sc \in {NoScore, 2} }
    \cup
    { Product("A", <<"a">>, UndefinedText, UndefinedText, UndefinedText,
              UndefinedText, <<"i.png">>, FALSE, 0, 1),
      Product("B", <<"a">>, UndefinedText, UndefinedText, UndefinedText,
              <<"t.png">>, <<"i.png">>, FALSE, 0, 2) }

RECURSIVE SeqsUpTo(_, _)
SeqsUpTo(S, n) ==
    IF n = 0 THEN {<<>>}
    ELSE LET shorter == SeqsUpTo(S, n - 1) IN
         shorter \cup {Append(q, x) : q \in {w \in shorter : Len(w) = n - 1}, x \in S}

\* JSON bodies of a /search answer: {products: [...]} or a body with no products key
SearchBodies ==
    {[hasProducts |-> TRUE, products |-> l] : l \in SeqsUpTo(RemoteProducts, MaxRemote)}
    \cup {[hasProducts |-> FALSE, products |-> <<>>]}

\* records of the local catalog
CatalogProducts ==
    { Product("L1", <<"B", "a", "g">>, UndefinedText, <<"b", "a", "g">>, UndefinedText,
              <<"t.png">>, UndefinedText, TRUE, 45, NoScore),
      Product("L2", <<"a">>, <<"B", "a", "g">>, UndefinedText, <<"a", " ", "b", "a", "g">>,
              UndefinedText, <<"i.png">>, FALSE, 0, NoScore),
      Product("L3", UndefinedText, UndefinedText, UndefinedText, UndefinedText,
              <<"t.png">>, UndefinedText, TRUE, 40, NoScore) }

Catalogs == SeqsUpTo(CatalogProducts, MaxCatalog)

\* values of the q parameter of the URL
QueryTexts == { <<>>, <<"B", "a", "g">>, <<"a", " ", " ", "b", "a", "g">> }

\* (data.products || []).map(p => ({...p, thumbnailImage: p.thumbnailImage || p.image || ''}))
Normalize(body) ==
    LET list == IF body.hasProducts THEN body.products ELSE <<>> IN
    [i \in 1..Len(list) |->
        [list[i] EXCEPT !.thumbnailImage = OrText(list[i].thumbnailImage, list[i].image)]]

\* product.similarity_score > existing.similarity_score (false when either is undefined)
ScoreGreater(a, b) == a # NoScore /\ b # NoScore /\ a > b

\* product.title && product.title.length > existing.title?.length
TitleLonger(product, existing) ==
    /\ product.title # UndefinedText /\ product.title # <<>>
    /\ existing.title # UndefinedText
    /\ Len(product.title) > Len(existing.title)

\* acc.findIndex(p => p.asin === product.asin), 0 for -1
FindIndex(acc, asin) ==
    IF \E i \in 1..Len(acc) : acc[i].asin = asin
    THEN Min({i \in 1..Len(acc) : acc[i].asin = asin})
    ELSE 0

\* a reduce step that replaces the kept record but pushes the new one as well
DedupStepPushing(acc, product) ==
    LET existingIndex == FindIndex(acc, product.asin) IN
    IF existingIndex = 0
    THEN Append(acc, product)
    ELSE IF \/ ScoreGreater(product.similarity_score, acc[existingIndex].similarity_score)
            \/ TitleLonger(product, acc[existingIndex])
         THEN Append(acc, product)
         ELSE acc

\* one step of the reduce
DedupStep(acc, product) ==
    LET existingIndex == FindIndex(acc, product.asin) IN
    IF existingIndex = 0
    THEN Append(acc, product)
    ELSE IF \/ ScoreGreater(product.similarity_score, acc[existingIndex].similarity_score)
            \/ TitleLonger(product, acc[existingIndex])
         THEN [acc EXCEPT ![existingIndex] = product]
         ELSE acc

\* normalized.reduce(..., [])
RECURSIVE UniqueProducts(_)
UniqueProducts(list) ==
    IF list = <<>> THEN <<>>
    ELSE DedupStep(UniqueProducts(SubSeq(list, 1, Len(list) - 1)), list[Len(list)])

\* a sort that puts the later of two equal keys first
RankTiesReversed(keys, i) ==
    1 + Cardinality({j \in 1..Len(keys) :
                        keys[j] > keys[i] \/ (keys[j] = keys[i] /\ j > i)})

\* position of element i after a stable sort by descending key
Rank(keys, i) ==
    1 + Cardinality({j \in 1..Len(keys) :
                        keys[j] > keys[i] \/ (keys[j] = keys[i] /\ j < i)})

\* list.sort((a, b) => key(b) - key(a)), keys given per position
SortDesc(list, keys) ==
    [k \in 1..Len(list) |-> list[CHOOSE i \in 1..Len(list) : Rank(keys, i) = k]]

\* .slice(0, n)
Slice(list, n) == SubSeq(list, 1, IF Len(list) < n THEN Len(list) ELSE n)

\* similarity_score || 0
ScoreOrZero(sc) == IF sc = NoScore THEN 0 ELSE sc

\* uniqueProducts.sort(by similarity_score).slice(0, 20)
SortedProducts(unique) ==
    Slice(SortDesc(unique, [i \in 1..Len(unique) |-> ScoreOrZero(unique[i].similarity_score)]),
          ResultLimit)

\* the try branch: what setProducts receives for a JSON body
MergeRemote(body) == SortedProducts(UniqueProducts(Normalize(body)))

\* s.split(/\s+/).filter(word => word.length > 0)
RECURSIVE SplitWords(_)
SplitWords(s) ==
    LET t == TrimStart(s) IN
    IF t = <<>> THEN <<>>
    ELSE LET ends == {k \in 1..Len(t) : k = Len(t) \/ IsSpace(t[k + 1])}
             e == Min(ends)
         IN  <<SubSeq(t, 1, e)>> \o SplitWords(SubSeq(t, e + 1, Len(t)))

\* field?.toLowerCase() || ''
LowerOrEmpty(field) == IF field = UndefinedText THEN <<>> ELSE ToLowerCase(field)

\* the forEach over queryWords: points of one product for the words
RECURSIVE WordPoints(_, _, _, _, _)
WordPoints(words, title, brand, category, description) ==
    IF words = <<>> THEN 0
    ELSE (IF Includes(title, Head(words)) THEN 5 ELSE 0)
         + (IF Includes(brand, Head(words)) THEN 3 ELSE 0)
         + (IF Includes(category, Head(words)) THEN 2 ELSE 0)
         + (IF Includes(description, Head(words)) THEN 1 ELSE 0)
         + WordPoints(Tail(words), title, brand, category, description)

\* _score of one catalog record in the fallback
FallbackScore(p, queryLc, queryWords) ==
    LET title == LowerOrEmpty(p.title)
        brand == LowerOrEmpty(p.brand)
        category == LowerOrEmpty(p.category)
        description == LowerOrEmpty(p.description)
    IN  (IF title = queryLc THEN 20 ELSE 0)
        + (IF brand = queryLc THEN 15 ELSE 0)
        + (IF Includes(title, queryLc) THEN 10 ELSE 0)
        + WordPoints(queryWords, title, brand, category, description)
        + (IF p.thumbnailImage # UndefinedText /\ p.thumbnailImage # <<>> /\ p.price
           THEN 2 ELSE 0)
        + (IF p.stars # 0 /\ p.stars > 40 THEN 1 ELSE 0)

\* the catch branch: score, filter > 0, sort, slice(0, 20), strip the score, fill the image
FallbackSearch(cat, searchQuery) ==
    LET queryLc == Trim(ToLowerCase(searchQuery))
        queryWords == SplitWords(queryLc)
        scores == [i \in 1..Len(cat) |-> FallbackScore(cat[i], queryLc, queryWords)]
        kept == SelectSeq([i \in 1..Len(cat) |-> i], LAMBDA i : scores[i] > 0)
        sorted == SortDesc(kept, [k \in 1..Len(kept) |-> scores[kept[k]]])
        top == Slice(sorted, ResultLimit)
    IN  [k \in 1..Len(top) |->
            [cat[top[k]] EXCEPT
                !.thumbnailImage = OrText(cat[top[k]].thumbnailImage, cat[top[k]].image)]]

(***************************************************************************)
(* Actions of the search page.                                             *)
(***************************************************************************)
\* the q parameter changes; the [query] effect runs: searchProducts(query) up to its
\* await, or the reset for an empty query
SetQuery(q) ==
    /\ q # query
    /\ query' = q
    /\ IF q # <<>>
       THEN /\ searches < MaxSearches
            /\ searches' = searches + 1
            /\ loading' = TRUE
            /\ hasSearched' = TRUE
            /\ products' = <<>>
            /\ shown' = Shown("none", 0)
            /\ searchReqs' = searchReqs \cup {[id |-> searches + 1, searchQuery |-> q]}
       ELSE /\ products' = <<>>
            /\ shown' = Shown("none", 0)
            /\ hasSearched' = FALSE
            /\ UNCHANGED <<loading, searchReqs, searches>>
    /\ UNCHANGED <<catalog, productsData, timers, chatVars>>

\* searchProducts after the answer arrived with a JSON body (whatever the status)
SearchResponse(r, body) ==
    /\ r \in searchReqs
    /\ searchReqs' = searchReqs \ {r}
    /\ products' = MergeRemote(body)
    /\ shown' = Shown("remote", Len(Normalize(body)))
    /\ loading' = FALSE
    /\ UNCHANGED <<catalog, query, hasSearched, searches, productsData, timers, chatVars>>

\* searchProducts when fetch rejected or the body is no JSON: the local fallback
SearchRejected(r) ==
    /\ r \in searchReqs
    /\ searchReqs' = searchReqs \ {r}
    /\ products' = FallbackSearch(catalog, r.searchQuery)
    /\ shown' = Shown("fallback", Len(catalog))
    /\ loading' = FALSE
    /\ UNCHANGED <<catalog, query, hasSearched, searches, productsData, timers, chatVars>>

\* searchProducts when fetch rejected and the import of the catalog rejected as well:
\* the exception leaves the function before setLoading(false)
SearchFallbackImportFailed(r) ==
    /\ r \in searchReqs
    /\ searchReqs' = searchReqs \ {r}
    /\ UNCHANGED <<catalog, query, products, loading, hasSearched, searches, shown,
                   productsData, timers, chatVars>>

\* JSON bodies of a non-2xx answer: an error object without a products key, or a
\* body that carries a list all the same
SearchErrorBodies == {body \in SearchBodies : Len(body.products) <= 1}

\* searchProducts after a non-2xx answer with a JSON body: response.ok and
\* response.status are never read, the body goes through the same statements
SearchErrorResponse(r, body) ==
    /\ body \in SearchErrorBodies
    /\ SearchResponse(r, body)

SearchInit == ChatInit /\ \E cat \in Catalogs : SearchPageInit(cat)

SearchNext ==
    \/ \E q \in QueryTexts : SetQuery(q)
    \/ \E r \in searchReqs : \E body \in SearchBodies : SearchResponse(r, body)
    \/ \E r \in searchReqs : \E body \in SearchErrorBodies : SearchErrorResponse(r, body)
    \/ \E r \in searchReqs : SearchRejected(r)
    \/ \E r \in searchReqs : SearchFallbackImportFailed(r)

SearchSpec == SearchInit /\ [][SearchNext]_vars

(***************************************************************************)
(* C10: Result Merger uniqueness. The list the dedup/sort/slice step of    *)
(* searchProducts displays holds no two records with the same asin.        *)
(***************************************************************************)
NoDuplicateAsin(list) ==
    \A i, j \in 1..Len(list) : list[i].asin = list[j].asin => i = j

C10_MergedUnique == shown.path = "remote" => NoDuplicateAsin(products)

\* an answer of two records with the same asin was merged to one record
C10_Witness ==
    /\ shown.path = "remote"
    /\ shown.received = 2
    /\ Len(products) = 1

(***************************************************************************)
(* Steps of the remote path, and what the merger was given.                *)
(***************************************************************************)
\* the records of the answer that share the asin of a kept record
SameAsin(input, kept) == {i \in 1..Len(input) : input[i].asin = kept.asin}

\* every kept record whose duplicates all carry a score has the highest of their scores
HigherScoreKept(input, merged) ==
    \A k \in 1..Len(merged) :
        (\A i \in SameAsin(input, merged[k]) : input[i].similarity_score # NoScore)
            => \A i \in SameAsin(input, merged[k]) :
                   merged[k].similarity_score >= input[i].similarity_score

\* the lists that hold the same records as `list` in another order
Reorderings(list) ==
    {[i \in 1..Len(list) |-> list[f[i]]] : f \in Permutations(1..Len(list))}

\* the set of records a merged list keeps
KeptRecords(merged) == {merged[k] : k \in 1..Len(merged)}

(***************************************************************************)
(* C11: Result Merger winner rule. When the records of an answer that      *)
(* share an asin all carry a similarity score, the merged list keeps the   *)
(* one with the highest score, whatever the title lengths.                 *)
(***************************************************************************)
C11_HigherScoreWins ==
    [][shown'.path = "remote" =>
          \A r \in searchReqs : \A body \in SearchBodies :
              SearchResponse(r, body) => HigherScoreKept(Normalize(body), products')]_vars

(***************************************************************************)
(* C12: Result Merger order independence. For every answer and every       *)
(* reordering of its records, the merger keeps the same record for each    *)
(* asin.                                                                   *)
(***************************************************************************)
C12_OrderIndependent ==
    [][shown'.path = "remote" =>
          \A r \in searchReqs : \A body \in SearchBodies :
              SearchResponse(r, body) =>
                  \A other \in Reorderings(body.products) :
                      KeptRecords(MergeRemote([body EXCEPT !.products = other]))
                          = KeptRecords(products')]_vars

(***************************************************************************)
(* The local search page (src/src/pages/SearchPage.tsx).                   *)
(***************************************************************************)
\* a record of products.json as the local scorer reads it; stars in tenths (45 is
\* 4.5), stars and reviewsCount 0 when missing
LocalProduct(asin, title, brand, category, thumbnailImage, stars, reviewsCount) ==
    [asin |-> asin, title |-> title, brand |-> brand, category |-> category,
     thumbnailImage |-> thumbnailImage, stars |-> stars, reviewsCount |-> reviewsCount]

\* records of products.json: an exact title, a brand and category match under a
\* longer title, a record with no text at all, an unrelated one with the same
\* quality signals, and one with no quality signal
LocalProducts ==
    { LocalProduct("P1", <<"B", "a", "g">>, UndefinedText, UndefinedText,
                   <<"t.png">>, 45, 2000),
      LocalProduct("P2", <<"B", "a", "g", "s">>, <<"B", "a", "g">>, <<"b", "a", "g">>,
                   UndefinedText, 0, 0),
      LocalProduct("P3", UndefinedText, UndefinedText, UndefinedText,
                   <<"t.png">>, 45, 2000),
      LocalProduct("P4", <<"H", "a", "t">>, <<"x">>, <<"y">>,
                   <<"t.png">>, 45, 2000) }

\* a catalog in which more records match one query than the page is to list
ManyMatches ==
    [i \in 1..(ResultLimit + 1) |->
        LocalProduct(ToString(i), <<"B", "a", "g">>, UndefinedText, UndefinedText,
                     UndefinedText, 0, 0)]

LocalCatalogs == SeqsUpTo(LocalProducts, MaxCatalog) \cup {ManyMatches}

\* values of the q parameter of the URL
LocalQueryTexts ==
    { <<>>, <<" ">>, <<"B", "a", "g", " ">>, <<"h", "a", "t">>,
      <<"r", "e", "d", " ", "b", "a", "g">> }

\* queryLc.split(/\s+/).filter(word => word.length > 2)
QueryWords(queryLc) == SelectSeq(SplitWords(queryLc), LAMBDA word : Len(word) > 2)

\* queryWords.filter(word => field.includes(word)).length
Matches(queryWords, field) ==
    Cardinality({i \in 1..Len(queryWords) : Includes(field, queryWords[i])})

\* the points of the exact, contained and word-by-word tests
TextScore(p, queryLc, queryWords) ==
    LET title == LowerOrEmpty(p.title)
        brand == LowerOrEmpty(p.brand)
        category == LowerOrEmpty(p.category)
        totalMatches == Matches(queryWords, title) + Matches(queryWords, brand)
                            + Matches(queryWords, category)
    IN  (IF title = queryLc THEN 100 ELSE 0)
        + (IF brand = queryLc THEN 80 ELSE 0)
        + (IF Includes(title, queryLc) THEN 50 ELSE 0)
        + (IF Includes(brand, queryLc) THEN 40 ELSE 0)
        + (IF Includes(category, queryLc) THEN 30 ELSE 0)
        + (IF Len(queryWords) > 0 /\ totalMatches > 0
           THEN totalMatches * 8
                + (IF 2 * totalMatches >= Len(queryWords) * 3 THEN 15 ELSE 0)
           ELSE 0)

\* the bonus for quality products
QualityBonus(p) ==
    (IF p.stars # 0 /\ p.stars >= 40 THEN 2 ELSE 0)
    + (IF p.reviewsCount # 0 /\ p.reviewsCount > 1000 THEN 2 ELSE 0)
    + (IF p.thumbnailImage # UndefinedText /\ p.thumbnailImage # <<>> THEN 1 ELSE 0)

\* _searchScore of one record
SearchScore(p, queryLc, queryWords) ==
    TextScore(p, queryLc, queryWords) + QualityBonus(p)

\* a filter that lets every record through
IsRelevantAlways(score) == score >= 0

\* .filter(p => p._searchScore >= 15)
IsRelevant(score) == score >= 15

\* the timer callback: score, filter, sort, strip the score
LocalSearch(data, searchQuery) ==
    LET queryLc == Trim(ToLowerCase(searchQuery))
        queryWords == QueryWords(queryLc)
        scores == [i \in 1..Len(data) |-> SearchScore(data[i], queryLc, queryWords)]
        kept == SelectSeq([i \in 1..Len(data) |-> i], LAMBDA i : IsRelevant(scores[i]))
        sorted == SortDesc(kept, [k \in 1..Len(kept) |-> scores[kept[k]]])
    IN  [k \in 1..Len(sorted) |-> data[sorted[k]]]

\* the local page before any query, over given products.json
LocalPageInit(data) ==
    /\ catalog = <<>>
    /\ query = <<>>
    /\ products = <<>>
    /\ loading = FALSE
    /\ hasSearched = FALSE
    /\ searchReqs = {}
    /\ searches = 0
    /\ shown = Shown("none", 0)
    /\ productsData = data
    /\ timers = <<>>

\* the q parameter changes; the [query] effect runs: searchProducts(query) up to
\* its setTimeout, or the reset for an empty query
LocalSetQuery(q) ==
    /\ q # query
    /\ query' = q
    /\ IF q # <<>>
       THEN /\ searches < MaxSearches
            /\ searches' = searches + 1
            /\ loading' = TRUE
            /\ hasSearched' = TRUE
            /\ products' = <<>>
            /\ shown' = Shown("none", 0)
            /\ timers' = Append(timers, q)
       ELSE /\ products' = <<>>
            /\ shown' = Shown("none", 0)
            /\ hasSearched' = FALSE
            /\ UNCHANGED <<loading, timers, searches>>
    /\ UNCHANGED <<catalog, searchReqs, productsData, chatVars>>

\* the oldest setTimeout callback runs (equal delays: in the order they were set)
LocalTimer ==
    /\ timers # <<>>
    /\ products' = LocalSearch(productsData, Head(timers))
    /\ shown' = Shown("local", Len(productsData))
    /\ loading' = FALSE
    /\ timers' = Tail(timers)
    /\ UNCHANGED <<catalog, query, hasSearched, searchReqs, searches, productsData,
                   chatVars>>

LocalInit == ChatInit /\ \E data \in LocalCatalogs : LocalPageInit(data)

LocalNext ==
    \/ \E q \in LocalQueryTexts : LocalSetQuery(q)
    \/ LocalTimer

LocalSpec == LocalInit /\ [][LocalNext]_vars

(***************************************************************************)
(* C13: bounded result length. Every search path displays at most the      *)
(* result limit (20) of records.                                           *)
(***************************************************************************)
C13_BoundedLength == Len(products) <= ResultLimit

(***************************************************************************)
(* C14: fallback on network error. When the /search request rejects,       *)
(* searchProducts ends with the local scorer's list for the same query on  *)
(* display and with loading false; no exception leaves it.                 *)
(***************************************************************************)
\* the display after searchProducts handled a rejected request r
FallbackDisplayed(r) ==
    /\ products' = FallbackSearch(catalog, r.searchQuery)
    /\ loading' = FALSE

\* searchProducts ran its catch branch for r, to its end or to an exception
RequestRejected(r) == SearchRejected(r) \/ SearchFallbackImportFailed(r)

C14_FallbackOnNetworkError ==
    [][\A r \in searchReqs : RequestRejected(r) => FallbackDisplayed(r)]_vars

(***************************************************************************)
(* C15: fallback on non-success status. When /search answers with a        *)
(* non-2xx status, whatever its body, the displayed list is the local      *)
(* scorer's list for the query.                                            *)
(***************************************************************************)
C15_FallbackOnErrorStatus ==
    [][\A r \in searchReqs : \A body \in SearchErrorBodies :
          SearchErrorResponse(r, body) => FallbackDisplayed(r)]_vars

(***************************************************************************)
(* C16: an empty query is a browse ordering. For a query that is empty     *)
(* after trimming, the local scorer scores every record from its quality   *)
(* bonuses only: records with equal quality signals get equal scores,      *)
(* whatever their title, brand and category.                               *)
(***************************************************************************)
\* the timer callback runs for a query that is empty after trimming
EmptyQuerySearch ==
    /\ LocalTimer
    /\ Trim(ToLowerCase(Head(timers))) = <<>>

\* the scores the callback gives the records of products.json for a search query
ScoresOf(searchQuery) ==
    [i \in 1..Len(productsData) |->
        SearchScore(productsData[i], Trim(ToLowerCase(searchQuery)),
                    QueryWords(Trim(ToLowerCase(searchQuery))))]

C16_EmptyQueryBrowse ==
    [][EmptyQuerySearch =>
          \A i, j \in 1..Len(productsData) :
              QualityBonus(productsData[i]) = QualityBonus(productsData[j])
                  => ScoresOf(Head(timers))[i] = ScoresOf(Head(timers))[j]]_vars

(***************************************************************************)
(* C17: an exact title match ranks first. In the list of the local search, *)
(* a record whose lower-cased title equals the lower-cased, trimmed query  *)
(* stands before every record whose title differs from the query.          *)
(***************************************************************************)
\* the lower-cased title of the record is the lower-cased, trimmed search query
TitleIsQuery(p, searchQuery) == LowerOrEmpty(p.title) = Trim(ToLowerCase(searchQuery))

C17_ExactTitleFirst ==
    [][LocalTimer =>
          \A i, j \in 1..Len(products') :
              (/\ TitleIsQuery(products'[i], Head(timers))
               /\ ~TitleIsQuery(products'[j], Head(timers))) => i < j]_vars

(***************************************************************************)
(* C18: no-match rejection. For a query that is not empty after trimming,  *)
(* the local search lists no record in which neither title, brand nor      *)
(* category contains the query or one of its tokens; when no record has    *)
(* such a match the list is empty.                                         *)
(***************************************************************************)
\* a text field of the record contains the query or one of its tokens
TextMatch(p, searchQuery) ==
    LET queryLc == Trim(ToLowerCase(searchQuery))
        tokens == SplitWords(queryLc)
        fields == {LowerOrEmpty(p.title), LowerOrEmpty(p.brand), LowerOrEmpty(p.category)}
    IN  \E field \in fields :
            \/ Includes(field, queryLc)
            \/ \E k \in 1..Len(tokens) : Includes(field, tokens[k])

C18_NoMatchRejected ==
    [][(LocalTimer /\ Trim(ToLowerCase(Head(timers))) # <<>>) =>
          /\ \A k \in 1..Len(products') : TextMatch(products'[k], Head(timers))
          /\ (\A i \in 1..Len(productsData) : ~TextMatch(productsData[i], Head(timers)))
                 => products' = <<>>]_vars

\* a search for "Bag " over a catalog that holds a record with quality signals and
\* no text has run, and listed the other record only
C18_Witness ==
    /\ shown.path = "local"
    /\ timers = <<>>
    /\ query = <<"B", "a", "g", " ">>
    /\ Len(productsData) = 2
    /\ \E i \in 1..Len(productsData) :
           QualityBonus(productsData[i]) > 0 /\ ~TextMatch(productsData[i], query)
    /\ Len(products) = 1

(***************************************************************************)
(* C19: save after every mutation. Every change of the in-memory message   *)
(* list leaves a save outstanding; an outstanding save ends only with the  *)
(* save effect, which rewrites chatMessages_<sessionId> to the in-memory   *)
(* list, or with the unload of the page; and whenever no save is           *)
(* outstanding the stored list equals the in-memory list.                  *)
(***************************************************************************)
\* the list stored under chatMessages_<sessionId> reads back as the in-memory list
Saved ==
    /\ storedMessages[sessionId] # Null
    /\ JSONParse(storedMessages[sessionId]) = messages

C20_OfflineGating ==
    [][\A r \in chatReqs' \ chatReqs : isConnected']_vars

(***************************************************************************)
(* C21: malformed records are skipped. A record that lacks its title or    *)
(* its asin never stands in a displayed search result.                     *)
(***************************************************************************)
\* the record has the required fields (an asin is a string, a title a text)
WellFormed(p) == p.title # UndefinedText /\ p.asin # "<undefined>"

C21_MalformedSkipped == \A k \in 1..Len(products) : WellFormed(products[k])

(***************************************************************************)
(* Storage that refuses a write: localStorage.setItem throws (quota        *)
(* exceeded, storage disabled).                                            *)
(***************************************************************************)
\* the save-messages effect runs and setItem throws: nothing catches the exception
\* of the effect, React removes the component tree; the write did not happen
SaveFailed ==
    /\ dirty
    /\ ~unmounted
    /\ unmounted' = TRUE
    /\ UNCHANGED <<storedSessionId, storedMessages, sessionId, messages, inputValue,
                   isTyping, isConnected, dirty, reloading, chatReqs, healthReq,
                   deleteReqs, mocks, clock, nextSid, sends, cleared>>
    /\ UNCHANGED searchVars

StorageNext == Next \/ SaveFailed

StorageSpec == Init /\ [][StorageNext]_vars

(***************************************************************************)
(* C22: a persistence failure is not fatal. When the write of the message  *)
(* list throws, the in-memory list keeps its value and the chat stays on   *)
(* the page, usable for further sends.                                     *)
(***************************************************************************)
C22_PersistenceFailureNonFatal ==
    [][SaveFailed => (messages' = messages /\ ~unmounted')]_vars

(***************************************************************************)
(* C23: recovery target. The retry request a page load issues for a        *)
(* pending placeholder carries the text of the most recent user message    *)
(* that precedes that placeholder in the history; when no user message     *)
(* precedes the placeholder, no request is issued.                         *)
(***************************************************************************)
\* some user message stands before position i
HasPrecedingUser(msgs, i) == \E j \in 1..(i - 1) : msgs[j].type = "user"

C23_RecoveryTarget ==
    [][Mount =>
          /\ \A r \in chatReqs' :
                LET i == IndexOfId(messages', r.turn) IN
                /\ i # 0
                /\ HasPrecedingUser(messages', i)
                /\ r.message = messages'[PrecedingUser(messages', i)].text
          /\ (/\ PendingBots(messages') # {}
              /\ ~HasPrecedingUser(messages', Min(PendingBots(messages'))))
                 => chatReqs' = {}]_vars

(***************************************************************************)
(* C24: clarification outcome. When a 2xx answer carries the clarification *)
(* signal, every pending placeholder is resolved in place with             *)
(* needsClarification = true, the answer's prompt list and pending =       *)
(* false, and no message is appended; for the answer to a send and for the *)
(* answer to the reload-recovery retry.                                    *)
(***************************************************************************)
\* what a step must have done with the placeholders for a clarification answer
ClarifiedInPlace(data) ==
    /\ Len(messages') = Len(messages)
    /\ \A i \in 1..Len(messages) :
        messages[i].pending =>
            /\ messages'[i].id = messages[i].id
            /\ messages'[i].needsClarification
            /\ messages'[i].clarificationQuestions = data.clarification_questions
            /\ ~messages'[i].pending

C24_ClarificationOutcome ==
    [][\A r \in chatReqs : \A data \in ChatData(r.message) :
          (WantsClarification(data) /\ (ChatResponse(r, data) \/ RetryResponse(r, data)))
              => ClarifiedInPlace(data)]_vars

(***************************************************************************)
(* C25: rank order of the local search. The list is in non-increasing      *)
(* order of score, and the records of equal score stand in the order they  *)
(* have in the catalog.                                                    *)
(***************************************************************************)
\* the score the timer callback gives a record for a search query
ScoreFor(p, searchQuery) ==
    SearchScore(p, Trim(ToLowerCase(searchQuery)), QueryWords(Trim(ToLowerCase(searchQuery))))

\* the records of a list that score s for the search query, in the order of the list
WithScore(list, searchQuery, s) ==
    SelectSeq(list, LAMBDA p : ScoreFor(p, searchQuery) = s)

C25_RankOrder ==
    [][LocalTimer =>
          /\ \A k, l \in 1..Len(products') :
                k < l => ScoreFor(products'[k], Head(timers))
                             >= ScoreFor(products'[l], Head(timers))
          /\ \A k \in 1..Len(products') :
                LET s == ScoreFor(products'[k], Head(timers)) IN
                WithScore(products', Head(timers), s)
                    = WithScore(productsData, Head(timers), s)]_vars

\* a search over the catalog of equally scored records has listed them all
C25_Witness ==
    /\ shown.path = "local"
    /\ productsData = ManyMatches
    /\ Len(products) = Len(ManyMatches)

(***************************************************************************)
(* C26: the threshold keeps partial token matches. For a query of two or   *)
(* more tokens, each longer than 2 characters, every record whose title,   *)
(* brand or category contains at least one of the tokens is listed by the  *)
(* local search.                                                           *)
(***************************************************************************)
\* the search query has two or more tokens, each longer than 2 characters
MultiToken(searchQuery) ==
    LET tokens == SplitWords(Trim(ToLowerCase(searchQuery))) IN
    /\ Len(tokens) >= 2
    /\ \A k \in 1..Len(tokens) : Len(tokens[k]) > 2

\* title, brand or category of the record contains one of the tokens
TokenMatch(p, searchQuery) ==
    LET tokens == SplitWords(Trim(ToLowerCase(searchQuery))) IN
    \E k \in 1..Len(tokens) :
        \/ Includes(LowerOrEmpty(p.title), tokens[k])
        \/ Includes(LowerOrEmpty(p.brand), tokens[k])
        \/ Includes(LowerOrEmpty(p.category), tokens[k])

C26_PartialMatchesKept ==
    [][(LocalTimer /\ MultiToken(Head(timers))) =>
          \A i \in 1..Len(productsData) :
              TokenMatch(productsData[i], Head(timers))
                  => \E k \in 1..Len(products') : products'[k] = productsData[i]]_vars

(***************************************************************************)
(* C27: frame of resolution. A resolution step (success, clarification,    *)
(* failure, reload-recovery response) changes only messages whose pending  *)
(* flag is true: every other message is left as it is, and every message   *)
(* keeps its id, its type and its position.                                *)
(***************************************************************************)
RetryAnswered ==
    \E r \in chatReqs : \E data \in ChatData(r.message) \cup {ErrorBody} :
        RetryResponse(r, data)

C27_ResolutionFrame ==
    [][(SendAnswered \/ RetryAnswered) =>
          /\ Len(messages') = Len(messages)
          /\ \A i \in 1..Len(messages) :
                /\ messages'[i].id = messages[i].id
                /\ messages'[i].type = messages[i].type
                /\ ~messages[i].pending => messages'[i] = messages[i]]_vars

\* a placeholder was resolved to a clarification right after its user message,
\* with the greeting still in front
C27_Witness ==
    /\ Len(messages) >= 3
    /\ messages[1].text = GreetingText
    /\ \E i \in 2..(Len(messages) - 1) :
           /\ messages[i].type = "user"
           /\ messages[i + 1].type = "bot"
           /\ messages[i + 1].needsClarification
           /\ ~messages[i + 1].pending

(***************************************************************************)
(* C28: responses are matched to their own turn. The answer to a request   *)
(* resolves the placeholder that was created for that request and no       *)
(* other: it is neither written into the placeholder of another turn nor   *)
(* dropped.                                                                *)
(***************************************************************************)
\* the step resolved exactly the placeholder of request r
ResolvedOwnTurn(r) ==
    /\ \A i \in 1..Len(messages) :
        (messages[i].pending /\ ~messages'[i].pending) => messages[i].id = r.turn
    /\ \E i \in 1..Len(messages) :
        messages[i].id = r.turn /\ messages[i].pending /\ ~messages'[i].pending

C28_OwnTurn ==
    [][\A r \in chatReqs :
          (\/ \E data \in ChatData(r.message) : ChatResponse(r, data)
           \/ \E data \in ChatData(r.message) \cup {ErrorBody} : RetryResponse(r, data))
              => ResolvedOwnTurn(r)]_vars

(***************************************************************************)
(* C29: a late chat response cannot cross a clear. Once clearChat has      *)
(* reset the history, the answer to a request that was issued before the   *)
(* clear changes nothing in the new history.                               *)
(***************************************************************************)
\* request r was issued before the history was reset: clearChat has run for this
\* page's session and the placeholder of r is no longer in the history
IssuedBeforeClear(r) ==
    /\ sessionId \in cleared
    /\ IndexOfId(messages, r.turn) = 0

C29_NoCrossClear ==
    [][\A r \in chatReqs :
          (/\ IssuedBeforeClear(r)
           /\ \/ \E data \in ChatData(r.message) : ChatResponse(r, data)
              \/ \E error \in ErrorDetails : ChatFailure(r, error)
              \/ \E data \in ChatData(r.message) \cup {ErrorBody} : RetryResponse(r, data))
              => messages' = messages]_vars

(***************************************************************************)
(* C30: the latest query wins in the remote search page. An answer or a    *)
(* fallback for a request that is not the one of the current query leaves  *)
(* the displayed list as it is, and loading does not become false while    *)
(* the request of the current query is outstanding.                        *)
(***************************************************************************)
\* searchProducts finishes for request r, by an answer or by the fallback
SearchCompleted(r) ==
    \/ \E body \in SearchBodies : SearchResponse(r, body)
    \/ SearchRejected(r)

\* r is the request of the most recently submitted query
Latest(r) == r.id = searches /\ r.searchQuery = query

C30_LatestQueryWins ==
    [][\A r \in searchReqs :
          SearchCompleted(r) =>
              /\ ~Latest(r) => products' = products
              /\ ~loading' => ~\E other \in searchReqs' : Latest(other)]_vars

====
